---- MODULE Spec2Model ----
(***************************************************************************)
(* Model of src/index.js (the second, structured-JSON revision, lines      *)
(* 162-335): the POST /transcribe handler and                              *)
(* transcribeAndTranslateWithGemini.                                       *)
(*                                                                         *)
(* The three collaborators (yt-dlp-wrap emitter, fluent-ffmpeg command,    *)
(* Gemini generateContent) are the environment.  Each emits exactly one    *)
(* terminal event (close or error, end or error, resolve or reject) and    *)
(* nothing after it, as the libraries do.  Node runs the continuation of   *)
(* a settled promise in the microtask queue before any other I/O callback, *)
(* so an event listener and the handler code up to the next await are one  *)
(* atomic action.                                                          *)
(***************************************************************************)
EXTENDS Integers, Sequences, FiniteSets, TLC

\* ---- bounds ----
MaxClock == 2      \* Date.now() values 1..MaxClock

Reqs == {"r1", "r2"}
Urls == {"", "u1"}                 \* "" stands for a body without url
Exts == {"m4a", "webm"}            \* %(ext)s of the media the tool saves

\* ---- paths in tempDir ----
NoFile == [id |-> 0, ext |-> ""]                      \* let downloadedFile = ''
TemplatePath(id, e) == [id |-> id, ext |-> e]         \* tempDir/<uniqueId>.%(ext)s
AudioFilePath(id) == [id |-> id, ext |-> "wav"]       \* tempDir/<uniqueId>.wav

\* ---- messages ----
MsgUrlRequired == "Instagram Reel URL is required."
MsgDownload == "Content could not be downloaded. The URL may be invalid, private, or the content is unavailable."
MsgInternal == "An internal server error occurred."
ErrDownloadFailed == "DownloadFailed"
ErrYtDlp == "yt-dlp process error"
ErrFfmpeg == "ffmpeg error"
ErrInvalidFormat == "Received an invalid response format from the AI model."
ErrGemini == "Failed to transcribe or translate audio with Gemini."

VARIABLES now, fs, pc, url, uniqueId, downloadedFile, dlProc, dlPromise,
          ffProc, ffPromise, reply, response, calls, raised, touched,
          dlCheck, cleanup

vars == <<now, fs, pc, url, uniqueId, downloadedFile, dlProc, dlPromise,
          ffProc, ffPromise, reply, response, calls, raised, touched,
          dlCheck, cleanup>>

\* ---- strings: sequences of one-character strings ----
\* The JSON payload is written with one symbol per member: "L", "O", "E" stand
\* for the members language_detected, original_transcript, english_translation,
\* "X" for a member with another key, "S" for a member with the key sourceUrl,
\* "n" for the literal null, "x" for a
\* character that starts no JSON value.  Fence, whitespace and punctuation
\* characters are kept one by one, so offsets count as in the source.
\* "~" stands for the backquote character U+0060.
FenceOpen == <<"~", "~", "~", "j", "s", "o", "n">>
FenceClose == <<"~", "~", "~">>
Obj3 == <<"{", "L", ",", "O", ",", "E", "}">>
Obj1 == <<"{", "L", "}">>
ObjS == <<"{", "L", ",", "O", ",", "E", ",", "S", "}">>
Replies ==
    { Obj3, Obj1, ObjS,
      <<"n">>,
      <<"x", "x">>,
      FenceOpen \o <<"\n">> \o Obj3 \o <<"\n">> \o FenceClose,
      FenceOpen \o Obj3 \o FenceClose \o <<"\n">> }

IsWs(c) == c \in {" ", "\n"}

Min(a, b) == IF a < b THEN a ELSE b
Max(a, b) == IF a > b THEN a ELSE b

\* String.prototype.startsWith
StartsWith(s, p) == Len(s) >= Len(p) /\ SubSeq(s, 1, Len(p)) = p

\* String.prototype.substring(start, end): both clamped to [0, length],
\* swapped when start > end; 0-based, end exclusive.
Substring(s, start, end) ==
    LET a == Min(Max(start, 0), Len(s))
        b == Min(Max(end, 0), Len(s))
    IN  SubSeq(s, Min(a, b) + 1, Max(a, b))

RECURSIVE TrimStart(_)
TrimStart(s) == IF s # <<>> /\ IsWs(Head(s)) THEN TrimStart(Tail(s)) ELSE s

RECURSIVE TrimEnd(_)
TrimEnd(s) ==
    IF s # <<>> /\ IsWs(s[Len(s)]) THEN TrimEnd(SubSeq(s, 1, Len(s) - 1)) ELSE s

\* String.prototype.trim
Trim(s) == TrimEnd(TrimStart(s))

\* index.js:313-315
StripFence(jsonResponse) ==
    IF StartsWith(jsonResponse, FenceOpen)
    THEN Trim(Substring(jsonResponse, 7, Len(jsonResponse) - 3))
    ELSE jsonResponse

MemberKey(c) ==
    CASE c = "L" -> "language_detected"
      [] c = "O" -> "original_transcript"
      [] c = "E" -> "english_translation"
      [] c = "S" -> "sourceUrl"
      [] OTHER   -> "extra"

MemberValue(c) ==
    CASE c = "L" -> "es"
      [] c = "O" -> "hola"
      [] c = "E" -> "hello"
      [] c = "S" -> "u9"
      [] OTHER   -> "more"

IsMember(c) == c \in {"L", "O", "E", "X", "S"}

EmptyObj == [k \in {} |-> ""]

\* the members between the braces: empty, or members separated by commas
MembersOk(m) ==
    \/ m = <<>>
    \/ /\ Len(m) % 2 = 1
       /\ \A i \in 1..Len(m) : IF i % 2 = 1 THEN IsMember(m[i]) ELSE m[i] = ","

ObjectOf(m) ==
    LET keys == { MemberKey(m[i]) : i \in { j \in 1..Len(m) : j % 2 = 1 } }
    IN  [k \in keys |->
            MemberValue(m[CHOOSE i \in 1..Len(m) : i % 2 = 1 /\ MemberKey(m[i]) = k])]

\* JSON.parse: surrounding whitespace is insignificant; the value is the
\* literal null or an object; anything else is a SyntaxError.
JSONParse(text) ==
    LET t == Trim(text)
    IN  IF t = <<"n">>
        THEN [ok |-> TRUE, isObject |-> FALSE, fields |-> EmptyObj]
        ELSE IF Len(t) >= 2 /\ t[1] = "{" /\ t[Len(t)] = "}"
                  /\ MembersOk(SubSeq(t, 2, Len(t) - 1))
             THEN [ok |-> TRUE, isObject |-> TRUE,
                   fields |-> ObjectOf(SubSeq(t, 2, Len(t) - 1))]
             ELSE [ok |-> FALSE, isObject |-> FALSE, fields |-> EmptyObj]

\* index.js:317-323: the inner try/catch around JSON.parse
ParseOrThrow(jsonResponse) ==
    LET p == JSONParse(jsonResponse)
    IN  IF p.ok THEN [threw |-> FALSE, message |-> "", value |-> p.fields]
        ELSE [threw |-> TRUE, message |-> ErrInvalidFormat, value |-> EmptyObj]

\* index.js:325-328: the outer catch replaces whatever was thrown inside the
\* function body, the inner parse error included.
OuterCatch(inner) ==
    IF inner.threw
    THEN [threw |-> TRUE, message |-> ErrGemini, value |-> EmptyObj]
    ELSE inner

\* index.js:309-328, from the resolved text of generateContent to the
\* result of the function
GeminiResult(text) == OuterCatch(ParseOrThrow(StripFence(text)))

\* index.js:325-328 for a rejected generateContent / response.text() throw
GeminiRejected == OuterCatch([threw |-> TRUE, message |-> "fetch failed", value |-> EmptyObj])

\* index.js:264-267: { sourceUrl: url, ...result }; later keys win
ResponseBody(u, result) == result @@ [sourceUrl |-> u]

\* ---- the handler, piece by piece ----
NoReply == [kind |-> "none", text |-> <<>>, jsonResponse |-> <<>>]

\* OnYtDlpEvent keeping the first announced destination
OnYtDlpEventFirstWins(df, id, ev) ==
    IF ev.type = "download" /\ ev.dest # "" /\ df = NoFile
    THEN TemplatePath(id, ev.dest)
    ELSE df

\* index.js:217-221, the ytDlpEvent listener: the new value of downloadedFile.
\* ev.dest is the extension of the announced path, "" when eventData carries
\* no Destination.
OnYtDlpEvent(df, id, ev) ==
    IF ev.type = "download" /\ ev.dest # ""
    THEN TemplatePath(id, ev.dest)
    ELSE df

\* OnClose with the rejection message misspelt
OnCloseMisspelt(df) ==
    IF df = NoFile
    THEN [state |-> "rejected", message |-> "Download failed"]
    ELSE [state |-> "resolved", message |-> ""]

\* index.js:222-230, the close listener: how it settles the download promise
OnClose(df) ==
    IF df = NoFile
    THEN [state |-> "rejected", message |-> ErrDownloadFailed]
    ELSE [state |-> "resolved", message |-> ""]

\* index.js:231, the error listener
OnError(err) == [state |-> "rejected", message |-> err]

\* DownloadCheckThrows without the existsSync test
DownloadCheckSkipsExists(df, files) == df = NoFile

\* index.js:234-237, the check after the awaited download
DownloadCheckThrows(df, files) == df = NoFile \/ df \notin files

\* index.js:247-250, the end listener of ffmpeg
OnFfEnd == [state |-> "resolved", message |-> ""]

\* OnFfError logging the error and resolving
OnFfErrorResolves(err) == [state |-> "resolved", message |-> ""]

\* index.js:251-254, the error listener of ffmpeg
OnFfError(err) == [state |-> "rejected", message |-> err]

\* index.js:269-277, the catch block: the response it sends
CatchResponse(message) ==
    IF message = ErrDownloadFailed
    THEN [status |-> 400, error |-> MsgDownload, details |-> "", body |-> EmptyObj]
    ELSE [status |-> 500, error |-> MsgInternal, details |-> message, body |-> EmptyObj]

\* index.js:264-267
SuccessResponse(u, result) ==
    [status |-> 200, error |-> "", details |-> "", body |-> ResponseBody(u, result)]

\* index.js:278-283, the finally block.  unlinkFails is the set of the two
\* unlinkSync calls ("raw", "wav") that throw when reached; a throw leaves the
\* block at once.
Cleanup(files, df, audio, unlinkFails) ==
    LET rawTry    == df # NoFile /\ df \in files
        rawThrows == rawTry /\ "raw" \in unlinkFails
        fs1       == IF rawTry /\ ~rawThrows THEN files \ {df} ELSE files
        wavTry    == ~rawThrows /\ audio \in fs1
        wavThrows == wavTry /\ "wav" \in unlinkFails
        fs2       == IF wavTry /\ ~wavThrows THEN fs1 \ {audio} ELSE fs1
    IN  [fs |-> fs2, raised |-> rawThrows \/ wavThrows]

\* The end of the handler for request r: the response resp is sent (try or
\* catch), then the finally block runs with the current downloadedFile df.
\* cleanup[r] records that the block ran, the path it tested and unlinked, and
\* which of the two temp files were on disk when the response was sent;
\* touched[r] collects the jobIds in the names of the files that the request,
\* its subprocesses included, has written or unlinked.
Finish(r, resp, df, unlinkFails) ==
    LET c == Cleanup(fs, df, AudioFilePath(uniqueId[r]), unlinkFails)
    IN  /\ response' = [response EXCEPT ![r] = Append(@, resp)]
        /\ fs' = c.fs
        /\ raised' = [raised EXCEPT ![r] = c.raised]
        /\ touched' = [touched EXCEPT ![r] = @ \cup { p.id : p \in fs \ c.fs }]
        /\ cleanup' = [cleanup EXCEPT ![r] =
               [ran |-> TRUE, unlinkArg |-> df,
                atResponse |-> {df, AudioFilePath(uniqueId[r])} \cap fs]]
        /\ pc' = [pc EXCEPT ![r] = "done"]

UnlinkFailures == SUBSET {"raw", "wav"}

\* ---- state ----
YtDlpEvents ==
    { [type |-> "download", dest |-> e] : e \in Exts \cup {""} }
        \cup { [type |-> "info", dest |-> ""] }

NoCalls == [download |-> 0, transcode |-> 0, inference |-> 0]

\* the check of index.js:234 not reached, ffmpeg(downloadedFile) not called
NoCheck == [reached |-> FALSE, arg |-> NoFile, existed |-> FALSE, ffInput |-> NoFile]

\* the finally block of index.js:278-283 not reached
NoCleanup == [ran |-> FALSE, unlinkArg |-> NoFile, atResponse |-> {}]

Init ==
    /\ now = 1
    /\ fs = {}
    /\ pc = [r \in Reqs |-> "idle"]
    /\ url = [r \in Reqs |-> ""]
    /\ uniqueId = [r \in Reqs |-> 0]
    /\ downloadedFile = [r \in Reqs |-> NoFile]
    /\ dlProc = [r \in Reqs |-> [state |-> "none", announced |-> {}, last |-> ""]]
    /\ dlPromise = [r \in Reqs |-> "none"]
    /\ ffProc = [r \in Reqs |-> [state |-> "none", wrote |-> FALSE]]
    /\ ffPromise = [r \in Reqs |-> "none"]
    /\ reply = [r \in Reqs |-> NoReply]
    /\ response = [r \in Reqs |-> <<>>]
    /\ calls = [r \in Reqs |-> NoCalls]
    /\ raised = [r \in Reqs |-> FALSE]
    /\ touched = [r \in Reqs |-> {}]
    /\ dlCheck = [r \in Reqs |-> NoCheck]
    /\ cleanup = [r \in Reqs |-> NoCleanup]

\* Date.now() advances between two events.  The clock is read only when a
\* request arrives (index.js:204) and only to name files, so a tick is
\* followed only when a request holds the current value as its uniqueId and
\* another request can still arrive to read the new one.
Tick ==
    /\ now < MaxClock
    /\ \E r \in Reqs : pc[r] = "idle"
    /\ \E r \in Reqs : uniqueId[r] = now
    /\ now' = now + 1
    /\ UNCHANGED <<fs, pc, url, uniqueId, downloadedFile, dlProc, dlPromise,
                   ffProc, ffPromise, reply, response, calls, raised, touched,
                   dlCheck, cleanup>>

\* RejectMissingUrl without the return: the 400 is sent and the handler goes
\* on into the pipeline
RejectMissingUrlNoReturn(r) ==
    /\ pc[r] = "idle"
    /\ url' = [url EXCEPT ![r] = ""]
    /\ response' = [response EXCEPT ![r] =
           Append(@, [status |-> 400, error |-> MsgUrlRequired, details |-> "",
                      body |-> EmptyObj])]
    /\ uniqueId' = [uniqueId EXCEPT ![r] = now]
    /\ dlProc' = [dlProc EXCEPT ![r].state = "running"]
    /\ dlPromise' = [dlPromise EXCEPT ![r] = "pending"]
    /\ calls' = [calls EXCEPT ![r].download = @ + 1]
    /\ pc' = [pc EXCEPT ![r] = "downloading"]
    /\ UNCHANGED <<now, fs, downloadedFile, ffProc, ffPromise, reply, raised,
                   touched, dlCheck, cleanup>>

\* index.js:197-202: a request without url is answered at once
RejectMissingUrl(r) ==
    /\ pc[r] = "idle"
    /\ url' = [url EXCEPT ![r] = ""]
    /\ response' = [response EXCEPT ![r] =
           Append(@, [status |-> 400, error |-> MsgUrlRequired, details |-> "",
                      body |-> EmptyObj])]
    /\ pc' = [pc EXCEPT ![r] = "done"]
    /\ UNCHANGED <<now, fs, uniqueId, downloadedFile, dlProc, dlPromise, ffProc,
                   ffPromise, reply, calls, raised, touched, dlCheck, cleanup>>

\* index.js:197-216: a request with a url starts the download subprocess and
\* waits for the download promise
StartPipeline(r, u) ==
    /\ pc[r] = "idle"
    /\ u # ""
    /\ url' = [url EXCEPT ![r] = u]
    /\ uniqueId' = [uniqueId EXCEPT ![r] = now]
    /\ downloadedFile' = [downloadedFile EXCEPT ![r] = NoFile]
    /\ dlProc' = [dlProc EXCEPT ![r].state = "running"]
    /\ dlPromise' = [dlPromise EXCEPT ![r] = "pending"]
    /\ calls' = [calls EXCEPT ![r].download = @ + 1]
    /\ pc' = [pc EXCEPT ![r] = "downloading"]
    /\ UNCHANGED <<now, fs, ffProc, ffPromise, reply, response, raised, touched,
                   dlCheck, cleanup>>

\* index.js:217-221: the subprocess prints a line, the listener runs;
\* dlProc[r] keeps the destinations the subprocess has announced and the last
\* of them
DlEvent(r, ev) ==
    /\ dlProc[r].state = "running"
    /\ dlProc' = [dlProc EXCEPT ![r].announced =
                                    IF ev.dest # "" THEN @ \cup {ev.dest} ELSE @,
                                ![r].last = IF ev.dest # "" THEN ev.dest ELSE @]
    /\ downloadedFile' = [downloadedFile EXCEPT ![r] =
                              OnYtDlpEvent(@, uniqueId[r], ev)]
    /\ UNCHANGED <<now, fs, pc, url, uniqueId, dlPromise, ffProc, ffPromise,
                   reply, response, calls, raised, touched, dlCheck, cleanup>>

\* the subprocess saves the media at a path it has announced, built from the
\* output template of index.js:215
DlWrite(r, e) ==
    /\ dlProc[r].state = "running"
    /\ e \in dlProc[r].announced
    /\ TemplatePath(uniqueId[r], e) \notin fs
    /\ fs' = fs \cup {TemplatePath(uniqueId[r], e)}
    /\ touched' = [touched EXCEPT ![r] = @ \cup {TemplatePath(uniqueId[r], e).id}]
    /\ UNCHANGED <<now, pc, url, uniqueId, downloadedFile, dlProc, dlPromise,
                   ffProc, ffPromise, reply, response, calls, raised, dlCheck,
                   cleanup>>

\* AfterDownload with the await of the transcode promise left out: the
\* inference call starts together with the transcoder
AfterDownloadNoAwait(r, s, unlinkFails) ==
    /\ dlPromise' = [dlPromise EXCEPT ![r] = s.state]
    /\ IF s.state = "rejected"
       THEN /\ Finish(r, CatchResponse(s.message), downloadedFile[r], unlinkFails)
            /\ UNCHANGED <<ffProc, ffPromise, calls, dlCheck>>
       ELSE IF DownloadCheckThrows(downloadedFile[r], fs)
       THEN /\ Finish(r, CatchResponse(ErrDownloadFailed), downloadedFile[r], unlinkFails)
            /\ dlCheck' = [dlCheck EXCEPT ![r] =
                   [reached |-> TRUE, arg |-> downloadedFile[r],
                    existed |-> downloadedFile[r] \in fs, ffInput |-> NoFile]]
            /\ UNCHANGED <<ffProc, ffPromise, calls>>
       ELSE /\ dlCheck' = [dlCheck EXCEPT ![r] =
                   [reached |-> TRUE, arg |-> downloadedFile[r],
                    existed |-> downloadedFile[r] \in fs,
                    ffInput |-> downloadedFile[r]]]
            /\ ffProc' = [ffProc EXCEPT ![r].state = "running"]
            /\ ffPromise' = [ffPromise EXCEPT ![r] = "pending"]
            /\ calls' = [calls EXCEPT ![r].transcode = @ + 1, ![r].inference = @ + 1]
            /\ pc' = [pc EXCEPT ![r] = "inferring"]
            /\ UNCHANGED <<fs, response, raised, touched, cleanup>>

\* AfterDownload with a rejection that never reaches the handler (the listener
\* does not call reject): the handler keeps waiting
AfterDownloadLosesRejection(r, s, unlinkFails) ==
    IF s.state = "rejected"
    THEN UNCHANGED <<fs, pc, dlPromise, ffProc, ffPromise, response, calls, raised,
                     touched, dlCheck, cleanup>>
    ELSE /\ dlPromise' = [dlPromise EXCEPT ![r] = s.state]
         /\ IF DownloadCheckThrows(downloadedFile[r], fs)
            THEN /\ Finish(r, CatchResponse(ErrDownloadFailed), downloadedFile[r],
                           unlinkFails)
                 /\ dlCheck' = [dlCheck EXCEPT ![r] =
                        [reached |-> TRUE, arg |-> downloadedFile[r],
                         existed |-> downloadedFile[r] \in fs, ffInput |-> NoFile]]
                 /\ UNCHANGED <<ffProc, ffPromise, calls>>
            ELSE /\ dlCheck' = [dlCheck EXCEPT ![r] =
                        [reached |-> TRUE, arg |-> downloadedFile[r],
                         existed |-> downloadedFile[r] \in fs,
                         ffInput |-> downloadedFile[r]]]
                 /\ ffProc' = [ffProc EXCEPT ![r].state = "running"]
                 /\ ffPromise' = [ffPromise EXCEPT ![r] = "pending"]
                 /\ calls' = [calls EXCEPT ![r].transcode = @ + 1]
                 /\ pc' = [pc EXCEPT ![r] = "transcoding"]
                 /\ UNCHANGED <<fs, response, raised, touched, cleanup>>

\* index.js:211-256: the download promise has been settled as s; the handler
\* goes on to the check of 234-237 and the start of ffmpeg, or to catch and
\* finally.
AfterDownload(r, s, unlinkFails) ==
    /\ dlPromise' = [dlPromise EXCEPT ![r] = s.state]
    /\ IF s.state = "rejected"
       THEN /\ Finish(r, CatchResponse(s.message), downloadedFile[r], unlinkFails)
            /\ UNCHANGED <<ffProc, ffPromise, calls, dlCheck>>
       ELSE IF DownloadCheckThrows(downloadedFile[r], fs)
       THEN /\ Finish(r, CatchResponse(ErrDownloadFailed), downloadedFile[r], unlinkFails)
            /\ dlCheck' = [dlCheck EXCEPT ![r] =
                   [reached |-> TRUE, arg |-> downloadedFile[r],
                    existed |-> downloadedFile[r] \in fs, ffInput |-> NoFile]]
            /\ UNCHANGED <<ffProc, ffPromise, calls>>
       ELSE /\ dlCheck' = [dlCheck EXCEPT ![r] =
                   [reached |-> TRUE, arg |-> downloadedFile[r],
                    existed |-> downloadedFile[r] \in fs,
                    ffInput |-> downloadedFile[r]]]
            /\ ffProc' = [ffProc EXCEPT ![r].state = "running"]
            /\ ffPromise' = [ffPromise EXCEPT ![r] = "pending"]
            /\ calls' = [calls EXCEPT ![r].transcode = @ + 1]
            /\ pc' = [pc EXCEPT ![r] = "transcoding"]
            /\ UNCHANGED <<fs, response, raised, touched, cleanup>>

\* index.js:222-230: the subprocess exits with status 0
DlClose(r, unlinkFails) ==
    /\ dlProc[r].state = "running"
    /\ dlPromise[r] = "pending"
    /\ dlProc' = [dlProc EXCEPT ![r].state = "closed"]
    /\ AfterDownload(r, OnClose(downloadedFile[r]), unlinkFails)
    /\ UNCHANGED <<now, url, uniqueId, downloadedFile, reply>>

\* index.js:231: the subprocess could not start or failed
DlError(r, unlinkFails) ==
    /\ dlProc[r].state = "running"
    /\ dlPromise[r] = "pending"
    /\ dlProc' = [dlProc EXCEPT ![r].state = "errored"]
    /\ AfterDownload(r, OnError(ErrYtDlp), unlinkFails)
    /\ UNCHANGED <<now, url, uniqueId, downloadedFile, reply>>

\* ffmpeg ... .save(audioFilePath), index.js:255: the transcoder writes its
\* output file
FfWrite(r) ==
    /\ ffProc[r].state = "running"
    /\ ~ffProc[r].wrote
    /\ ffProc' = [ffProc EXCEPT ![r].wrote = TRUE]
    /\ fs' = fs \cup {AudioFilePath(uniqueId[r])}
    /\ touched' = [touched EXCEPT ![r] = @ \cup {AudioFilePath(uniqueId[r]).id}]
    /\ UNCHANGED <<now, pc, url, uniqueId, downloadedFile, dlProc, dlPromise,
                   ffPromise, reply, response, calls, raised, dlCheck, cleanup>>

\* AfterTranscode with the rejection of the transcode promise caught and
\* ignored: the handler goes on to the inference call
AfterTranscodeIgnoresFailure(r, s, unlinkFails) ==
    /\ ffPromise' = [ffPromise EXCEPT ![r] = s.state]
    /\ calls' = [calls EXCEPT ![r].inference = @ + 1]
    /\ IF AudioFilePath(uniqueId[r]) \notin fs
       THEN Finish(r, CatchResponse(GeminiRejected.message),
                   downloadedFile[r], unlinkFails)
       ELSE /\ pc' = [pc EXCEPT ![r] = "inferring"]
            /\ UNCHANGED <<fs, response, raised, touched, cleanup>>

\* index.js:242-310: the transcode promise has been settled as s; the handler
\* calls transcribeAndTranslateWithGemini, whose readFileSync (295) throws
\* into the outer catch when the file is not there, or goes to catch and
\* finally.
AfterTranscode(r, s, unlinkFails) ==
    /\ ffPromise' = [ffPromise EXCEPT ![r] = s.state]
    /\ IF s.state = "rejected"
       THEN /\ Finish(r, CatchResponse(s.message), downloadedFile[r], unlinkFails)
            /\ UNCHANGED calls
       ELSE /\ calls' = [calls EXCEPT ![r].inference = @ + 1]
            /\ IF AudioFilePath(uniqueId[r]) \notin fs
               THEN Finish(r, CatchResponse(GeminiRejected.message),
                           downloadedFile[r], unlinkFails)
               ELSE /\ pc' = [pc EXCEPT ![r] = "inferring"]
                    /\ UNCHANGED <<fs, response, raised, touched, cleanup>>

\* index.js:247-250: the transcoder finishes
FfEnd(r, unlinkFails) ==
    /\ ffProc[r].state = "running"
    /\ ffProc[r].wrote
    /\ ffPromise[r] = "pending"
    /\ ffProc' = [ffProc EXCEPT ![r].state = "ended"]
    /\ AfterTranscode(r, OnFfEnd, unlinkFails)
    /\ UNCHANGED <<now, url, uniqueId, downloadedFile, dlProc, dlPromise, reply,
                   dlCheck>>

\* index.js:251-254: the transcoder fails
FfError(r, unlinkFails) ==
    /\ ffProc[r].state = "running"
    /\ ffPromise[r] = "pending"
    /\ ffProc' = [ffProc EXCEPT ![r].state = "errored"]
    /\ AfterTranscode(r, OnFfError(ErrFfmpeg), unlinkFails)
    /\ UNCHANGED <<now, url, uniqueId, downloadedFile, dlProc, dlPromise, reply,
                   dlCheck>>

\* index.js:309-323 and 263-283: generateContent resolves with text;
\* reply[r] keeps the text and the jsonResponse handed to JSON.parse
InferenceResolves(r, text, unlinkFails) ==
    /\ pc[r] = "inferring"
    /\ reply' = [reply EXCEPT ![r] =
           [kind |-> "text", text |-> text, jsonResponse |-> StripFence(text)]]
    /\ LET g == GeminiResult(text)
       IN  IF g.threw
           THEN Finish(r, CatchResponse(g.message), downloadedFile[r], unlinkFails)
           ELSE Finish(r, SuccessResponse(url[r], g.value), downloadedFile[r],
                       unlinkFails)
    /\ UNCHANGED <<now, url, uniqueId, downloadedFile, dlProc, dlPromise, ffProc,
                   ffPromise, calls, dlCheck>>

\* index.js:325-328 and 269-283: generateContent rejects
InferenceRejects(r, unlinkFails) ==
    /\ pc[r] = "inferring"
    /\ reply' = [reply EXCEPT ![r] =
           [kind |-> "rejected", text |-> <<>>, jsonResponse |-> <<>>]]
    /\ Finish(r, CatchResponse(GeminiRejected.message), downloadedFile[r],
              unlinkFails)
    /\ UNCHANGED <<now, url, uniqueId, downloadedFile, dlProc, dlPromise, ffProc,
                   ffPromise, calls, dlCheck>>

Next ==
    \/ Tick
    \/ \E r \in Reqs : RejectMissingUrl(r)
    \/ \E r \in Reqs, u \in Urls : StartPipeline(r, u)
    \/ \E r \in Reqs, ev \in YtDlpEvents : DlEvent(r, ev)
    \/ \E r \in Reqs, e \in Exts : DlWrite(r, e)
    \/ \E r \in Reqs, uf \in UnlinkFailures : DlClose(r, uf)
    \/ \E r \in Reqs, uf \in UnlinkFailures : DlError(r, uf)
    \/ \E r \in Reqs : FfWrite(r)
    \/ \E r \in Reqs, uf \in UnlinkFailures : FfEnd(r, uf)
    \/ \E r \in Reqs, uf \in UnlinkFailures : FfError(r, uf)
    \/ \E r \in Reqs, t \in Replies, uf \in UnlinkFailures : InferenceResolves(r, t, uf)
    \/ \E r \in Reqs, uf \in UnlinkFailures : InferenceRejects(r, uf)

Spec == Init /\ [][Next]_vars

\* the terminal events of the three collaborators of request r
DlTerminal(r) == \E uf \in UnlinkFailures : DlClose(r, uf) \/ DlError(r, uf)
FfTerminal(r) == \E uf \in UnlinkFailures : FfEnd(r, uf) \/ FfError(r, uf)
InferenceSettles(r) ==
    \E uf \in UnlinkFailures :
        \/ InferenceRejects(r, uf)
        \/ \E t \in Replies : InferenceResolves(r, t, uf)

\* Spec with every started collaborator eventually emitting a terminal event
SpecLive ==
    /\ Spec
    /\ \A r \in Reqs : /\ WF_vars(DlTerminal(r))
                        /\ WF_vars(FfTerminal(r))
                        /\ WF_vars(InferenceSettles(r))

\* ---- collaborators that emit more than one terminal event ----
\* a promise that takes every call of resolve or reject, settled or not
SettlesAlways(p) == TRUE

\* index.js:211 and 242, new Promise((resolve, reject) => ...): a call of
\* resolve or reject settles the promise only while it is pending; on a
\* settled promise the call does nothing and no continuation runs again
Settles(p) == p = "pending"

\* index.js:222-230: close arrives after the error event of the same
\* subprocess
DlLateClose(r) ==
    /\ dlProc[r].state = "errored"
    /\ dlProc' = [dlProc EXCEPT ![r].state = "both"]
    /\ IF Settles(dlPromise[r])
       THEN \E uf \in UnlinkFailures :
                AfterDownload(r, OnClose(downloadedFile[r]), uf)
       ELSE UNCHANGED <<fs, pc, dlPromise, ffProc, ffPromise, response, calls,
                        raised, touched, dlCheck, cleanup>>
    /\ UNCHANGED <<now, url, uniqueId, downloadedFile, reply>>

\* index.js:231: error arrives after the close event of the same subprocess
DlLateError(r) ==
    /\ dlProc[r].state = "closed"
    /\ dlProc' = [dlProc EXCEPT ![r].state = "both"]
    /\ IF Settles(dlPromise[r])
       THEN \E uf \in UnlinkFailures : AfterDownload(r, OnError(ErrYtDlp), uf)
       ELSE UNCHANGED <<fs, pc, dlPromise, ffProc, ffPromise, response, calls,
                        raised, touched, dlCheck, cleanup>>
    /\ UNCHANGED <<now, url, uniqueId, downloadedFile, reply>>

\* index.js:247-250: end arrives after the error event of the same transcoder
FfLateEnd(r) ==
    /\ ffProc[r].state = "errored"
    /\ ffProc' = [ffProc EXCEPT ![r].state = "both"]
    /\ IF Settles(ffPromise[r])
       THEN \E uf \in UnlinkFailures : AfterTranscode(r, OnFfEnd, uf)
       ELSE UNCHANGED <<fs, pc, ffPromise, response, calls, raised, touched,
                        cleanup>>
    /\ UNCHANGED <<now, url, uniqueId, downloadedFile, dlProc, dlPromise, reply,
                   dlCheck>>

\* index.js:251-254: error arrives after the end event of the same transcoder
FfLateError(r) ==
    /\ ffProc[r].state = "ended"
    /\ ffProc' = [ffProc EXCEPT ![r].state = "both"]
    /\ IF Settles(ffPromise[r])
       THEN \E uf \in UnlinkFailures : AfterTranscode(r, OnFfError(ErrFfmpeg), uf)
       ELSE UNCHANGED <<fs, pc, ffPromise, response, calls, raised, touched,
                        cleanup>>
    /\ UNCHANGED <<now, url, uniqueId, downloadedFile, dlProc, dlPromise, reply,
                   dlCheck>>

\* The replies of the inference call followed where the subprocess events are
\* the subject: one that JSON.parse accepts (200) and one that it rejects (500)
LooseReplies == {Obj3, <<"x", "x">>}

NextLoose ==
    \/ Tick
    \/ \E r \in Reqs : RejectMissingUrl(r)
    \/ \E r \in Reqs, u \in Urls : StartPipeline(r, u)
    \/ \E r \in Reqs, ev \in YtDlpEvents : DlEvent(r, ev)
    \/ \E r \in Reqs, e \in Exts : DlWrite(r, e)
    \/ \E r \in Reqs, uf \in UnlinkFailures : DlClose(r, uf)
    \/ \E r \in Reqs, uf \in UnlinkFailures : DlError(r, uf)
    \/ \E r \in Reqs : FfWrite(r)
    \/ \E r \in Reqs, uf \in UnlinkFailures : FfEnd(r, uf)
    \/ \E r \in Reqs, uf \in UnlinkFailures : FfError(r, uf)
    \/ \E r \in Reqs, t \in LooseReplies, uf \in UnlinkFailures :
           InferenceResolves(r, t, uf)
    \/ \E r \in Reqs, uf \in UnlinkFailures : InferenceRejects(r, uf)
    \/ \E r \in Reqs : DlLateClose(r)
    \/ \E r \in Reqs : DlLateError(r)
    \/ \E r \in Reqs : FfLateEnd(r)
    \/ \E r \in Reqs : FfLateError(r)

\* The handler with subprocesses that may emit both of their terminal events
SpecLoose == Init /\ [][NextLoose]_vars

\* ---- properties ----
Done(r) == pc[r] = "done"
Entered(r) == uniqueId[r] # 0
InFlight(r) == pc[r] \in {"downloading", "transcoding", "inferring"}
Answer(r) == response[r][1]
ResultKeys == {"language_detected", "original_transcript", "english_translation"}

\* C1: once the handler of a request that entered the pipeline has finished,
\* neither its raw media file (downloadedFile) nor its .wav file is on disk.
C1_NoTempFileAfterHandler ==
    \A r \in Reqs :
        (Done(r) /\ Entered(r)) =>
            /\ downloadedFile[r] \notin fs
            /\ AudioFilePath(uniqueId[r]) \notin fs

\* C2: when the download subprocess closes without having announced a
\* destination, the request is answered 400 with the download message and
\* neither the transcoder nor the inference client has been invoked.
C2_CloseWithoutDestination ==
    \A r \in Reqs :
        (dlProc[r].state = "closed" /\ dlProc[r].announced = {}) =>
            /\ Done(r)
            /\ response[r] = <<[status |-> 400, error |-> MsgDownload,
                                details |-> "", body |-> EmptyObj]>>
            /\ calls[r].transcode = 0 /\ calls[r].inference = 0
            /\ ffProc[r].state = "none" /\ reply[r] = NoReply

C2_Witness ==
    \E r \in Reqs :
        dlProc[r].state = "closed" /\ dlProc[r].announced = {} /\ Done(r)

\* C3: when the download subprocess emits an error event, the request is
\* answered 400 with the download message, as for DownloadFailed.
C3_ErrorEventIsDownloadFailed ==
    \A r \in Reqs :
        (dlProc[r].state = "errored" /\ Done(r)) =>
            /\ Answer(r).status = 400
            /\ Answer(r).error = MsgDownload

\* C4: when the download succeeded and the transcoder reports an error, the
\* request is answered 500 with the internal-error message and the inference
\* client has never been invoked.
C4_TranscodeError ==
    \A r \in Reqs :
        ffProc[r].state = "errored" =>
            /\ dlProc[r].state = "closed"
            /\ Done(r)
            /\ response[r] = <<[status |-> 500, error |-> MsgInternal,
                                details |-> ErrFfmpeg, body |-> EmptyObj]>>
            /\ calls[r].inference = 0 /\ reply[r] = NoReply

C4_Witness ==
    \E r \in Reqs : ffProc[r].state = "errored" /\ Done(r) /\ calls[r].transcode = 1

\* C5: a failing deletion in cleanup is never raised out of the handler.
C5_CleanupNeverRaises == \A r \in Reqs : ~raised[r]

\* C6: two pipelines in flight at the same time have different jobIds, hence
\* different .wav paths and output templates.
C6_JobIdsDistinct ==
    \A r1, r2 \in Reqs :
        (r1 # r2 /\ InFlight(r1) /\ InFlight(r2)) =>
            /\ uniqueId[r1] # uniqueId[r2]
            /\ AudioFilePath(uniqueId[r1]) # AudioFilePath(uniqueId[r2])
            /\ \A e \in Exts :
                   TemplatePath(uniqueId[r1], e) # TemplatePath(uniqueId[r2], e)

\* C7: two requests with distinct jobIds write and delete only files named by
\* their own jobId, and once both have finished no file of either is on disk.
C7_NoInterference ==
    \A r1, r2 \in Reqs :
        (r1 # r2 /\ Entered(r1) /\ Entered(r2) /\ uniqueId[r1] # uniqueId[r2]) =>
            /\ \A id \in touched[r1] : id = uniqueId[r1]
            /\ (Done(r1) /\ Done(r2)) =>
                   \A p \in fs : p.id \notin {uniqueId[r1], uniqueId[r2]}

\* C8: when the text of the model (after fence stripping) is not JSON, the
\* request fails with the malformed-response error, which differs from the
\* error of a failed inference call, and is answered 500 without the raw text.
C8_MalformedIsDistinguished ==
    \A r \in Reqs :
        (Done(r) /\ reply[r].kind = "text"
                 /\ ~JSONParse(StripFence(reply[r].text)).ok) =>
            /\ Answer(r).status = 500
            /\ Answer(r).details = ErrInvalidFormat
            /\ Answer(r).details # GeminiRejected.message
            /\ Answer(r).body = EmptyObj

\* C9: every 200 response carries the three keys language_detected,
\* original_transcript and english_translation.
C9_SuccessHasThreeKeys ==
    \A r \in Reqs :
        (response[r] # <<>> /\ Answer(r).status = 200) =>
            ResultKeys \subseteq DOMAIN Answer(r).body

\* C10: within one request the transcoder is started only after the download
\* subprocess has closed, the inference call only after the transcoder has
\* ended, and no two stages run at the same time.
C10_StagesSequential ==
    \A r \in Reqs :
        /\ calls[r].transcode > 0 => dlProc[r].state = "closed"
        /\ calls[r].inference > 0 => ffProc[r].state = "ended"
        /\ ffProc[r].state = "running" => dlProc[r].state # "running"
        /\ pc[r] = "inferring" => ffProc[r].state # "running"

C10_Witness ==
    \E r \in Reqs : pc[r] = "inferring" /\ calls[r].inference = 1

\* C11: when the response of a request that entered the pipeline is sent,
\* cleanup has already run: neither of its two temp files is on disk at that
\* moment.
C11_ResponseAfterCleanup ==
    \A r \in Reqs :
        (Entered(r) /\ response[r] # <<>>) => cleanup[r].atResponse = {}

\* C12: in every 200 response sourceUrl is the url of the request and the
\* three AI fields are those of the parsed reply, whatever keys it carries.
C12_SuccessBody ==
    \A r \in Reqs :
        (response[r] # <<>> /\ Answer(r).status = 200) =>
            LET result == JSONParse(reply[r].jsonResponse).fields
            IN  /\ Answer(r).body["sourceUrl"] = url[r]
                /\ \A k \in ResultKeys \cap DOMAIN result :
                       k \in DOMAIN Answer(r).body /\ Answer(r).body[k] = result[k]

\* C13: a 200 response is sent only when download, transcode and inference
\* each ran exactly once and succeeded; no stage runs twice, no stage is
\* started after a stage has failed, and an error response has no result
\* fields.
C13_NoRetryNoPartialResult ==
    \A r \in Reqs :
        /\ calls[r].download <= 1 /\ calls[r].transcode <= 1
        /\ calls[r].inference <= 1
        /\ (response[r] # <<>> /\ Answer(r).status = 200) =>
               /\ calls[r] = [download |-> 1, transcode |-> 1, inference |-> 1]
               /\ dlProc[r].state = "closed" /\ dlPromise[r] = "resolved"
               /\ dlCheck[r].reached /\ dlCheck[r].existed
               /\ ffProc[r].state = "ended" /\ ffPromise[r] = "resolved"
               /\ reply[r].kind = "text" /\ JSONParse(reply[r].jsonResponse).ok
        /\ dlPromise[r] = "rejected" =>
               calls[r].transcode = 0 /\ calls[r].inference = 0
        /\ (dlCheck[r].reached /\ ~dlCheck[r].existed) =>
               calls[r].transcode = 0 /\ calls[r].inference = 0
        /\ ffPromise[r] = "rejected" => calls[r].inference = 0
        /\ (response[r] # <<>> /\ Answer(r).status # 200) =>
               Answer(r).body = EmptyObj

C13_Witness ==
    \E r1, r2 \in Reqs :
        /\ response[r1] # <<>> /\ Answer(r1).status = 200
        /\ ffPromise[r2] = "rejected" /\ Done(r2)

\* C14: a request without url is answered 400 with the url-required message
\* and starts no pipeline: no jobId, no download, transcode or inference
\* call, no temp file written or deleted, no cleanup.
C14_MissingUrl ==
    \A r \in Reqs :
        (pc[r] # "idle" /\ url[r] = "") =>
            /\ Done(r)
            /\ response[r] = <<[status |-> 400, error |-> MsgUrlRequired,
                                details |-> "", body |-> EmptyObj]>>
            /\ uniqueId[r] = 0 /\ downloadedFile[r] = NoFile
            /\ calls[r] = NoCalls
            /\ dlProc[r].state = "none" /\ ffProc[r].state = "none"
            /\ reply[r] = NoReply
            /\ touched[r] = {} /\ cleanup[r] = NoCleanup

C14_Witness ==
    \E r1, r2 \in Reqs :
        /\ Done(r1) /\ url[r1] = ""
        /\ r2 # r1 /\ Entered(r2) /\ fs # {}

\* The reply without its opening json fence marker and without the closing
\* marker that ends it (whitespace after the closing marker allowed), trimmed.
C15_FenceRemoved(text) ==
    LET rest == TrimEnd(SubSeq(text, Len(FenceOpen) + 1, Len(text)))
        core == IF Len(rest) >= Len(FenceClose)
                   /\ SubSeq(rest, Len(rest) - Len(FenceClose) + 1, Len(rest)) = FenceClose
                THEN SubSeq(rest, 1, Len(rest) - Len(FenceClose))
                ELSE rest
    IN  Trim(core)

\* C15: a reply that begins with the json fence marker is handed to the JSON
\* parser with exactly the opening and the closing marker removed and the
\* surrounding whitespace trimmed, also when whitespace follows the closing
\* marker; any other reply is handed to the parser unchanged.
C15_FenceStripping ==
    \A r \in Reqs :
        reply[r].kind = "text" =>
            reply[r].jsonResponse =
                IF StartsWith(reply[r].text, FenceOpen)
                THEN C15_FenceRemoved(reply[r].text)
                ELSE reply[r].text

\* the path of the last Destination the download subprocess of r announced
LastAnnounced(r) ==
    IF dlProc[r].last = "" THEN NoFile
    ELSE TemplatePath(uniqueId[r], dlProc[r].last)

\* C16: once the download subprocess has closed, the raw media path used for
\* the existence check, for ffmpeg and for cleanup is the one of the last
\* Destination event received before close.
C16_LastDestinationWins ==
    \A r \in Reqs :
        dlProc[r].state = "closed" =>
            /\ downloadedFile[r] = LastAnnounced(r)
            /\ dlCheck[r].reached => dlCheck[r].arg = LastAnnounced(r)
            /\ calls[r].transcode > 0 => dlCheck[r].ffInput = LastAnnounced(r)
            /\ cleanup[r].ran => cleanup[r].unlinkArg = LastAnnounced(r)

C16_Witness ==
    \E r \in Reqs :
        /\ dlProc[r].state = "closed" /\ Cardinality(dlProc[r].announced) = 2
        /\ calls[r].transcode = 1 /\ cleanup[r].ran

\* C17: when the subprocess closes after announcing a destination and the
\* announced path is not on disk, the request is answered 400 with the
\* download message and the transcoder is never invoked; when the path is on
\* disk, the transcoder is started with exactly that path.
C17_AnnouncedPathMustExist ==
    \A r \in Reqs :
        (dlProc[r].state = "closed" /\ dlProc[r].last # "") =>
            /\ dlCheck[r].reached
            /\ IF dlCheck[r].existed
               THEN /\ calls[r].transcode = 1
                    /\ dlCheck[r].ffInput = LastAnnounced(r)
               ELSE /\ Done(r)
                    /\ response[r] = <<[status |-> 400, error |-> MsgDownload,
                                        details |-> "", body |-> EmptyObj]>>
                    /\ calls[r].transcode = 0 /\ calls[r].inference = 0
                    /\ ffProc[r].state = "none"

C17_Witness ==
    \E r1, r2 \in Reqs :
        /\ dlProc[r1].state = "closed" /\ dlProc[r1].last # ""
        /\ dlCheck[r1].reached /\ ~dlCheck[r1].existed /\ Done(r1)
        /\ dlProc[r2].state = "closed" /\ dlCheck[r2].existed
        /\ calls[r2].transcode = 1

\* C18: when every collaborator eventually emits a terminal event, every
\* request that has arrived eventually has its response sent and, if it
\* entered the pipeline, its cleanup executed.
C18_EveryRequestTerminates ==
    \A r \in Reqs :
        (pc[r] # "idle") ~>
            (Done(r) /\ Len(response[r]) = 1 /\ (Entered(r) => cleanup[r].ran))

C18_Witness ==
    \E r1, r2 \in Reqs :
        /\ r1 # r2
        /\ Done(r1) /\ cleanup[r1].ran /\ Answer(r1).status = 200
        /\ Done(r2) /\ cleanup[r2].ran /\ Answer(r2).status = 500

\* C19: whatever the subprocesses emit, a download that emits both error and
\* close and a transcoder that emits both error and end included, no request
\* has two responses sent and no stage of a request is started twice.
C19_AnsweredAtMostOnce ==
    \A r \in Reqs :
        /\ Len(response[r]) <= 1
        /\ calls[r].download <= 1
        /\ calls[r].transcode <= 1
        /\ calls[r].inference <= 1

C19_Witness ==
    \E r1, r2 \in Reqs :
        /\ r1 # r2
        /\ dlProc[r1].state = "both" /\ ffProc[r1].state = "both"
        /\ Done(r1) /\ Len(response[r1]) = 1
        /\ dlProc[r2].state = "both" /\ dlPromise[r2] = "rejected"
        /\ Done(r2) /\ Len(response[r2]) = 1

====
